---- MODULE Spec2Model ----
(***************************************************************************)
(* Snowflake identifier generator and decoder                              *)
(* (packages/core/src/utils/snowflake.py).                                 *)
(*                                                                         *)
(* A SnowflakeGenerator packs (clock reading - epoch, machine id, random   *)
(* sequence) into one integer; parse_snowflake_id unpacks it.  A call of   *)
(* generate_id is modelled in three steps (clock read, regression test and *)
(* window reset, one iteration of the while loop), so that the clock may   *)
(* move while a call is in progress and a call that never leaves its loop  *)
(* is a behaviour of the model.                                            *)
(***************************************************************************)
EXTENDS Integers, Sequences, FiniteSets, Bags, TLC

(***************************************************************************)
(* Python integer operators.  Python integers are unbounded and the        *)
(* bitwise operators act on the infinite two's complement representation,  *)
(* so a negative number has infinitely many leading one bits.  \div and %  *)
(* are the floor division and the non-negative remainder.                  *)
(***************************************************************************)
RECURSIVE BitAnd(_, _), BitOr(_, _), BitXor(_, _)

BitAnd(a, b) ==
    IF a = 0 \/ b = 0 THEN 0
    ELSE IF a = -1 THEN b
    ELSE IF b = -1 THEN a
    ELSE 2 * BitAnd(a \div 2, b \div 2) + ((a % 2) * (b % 2))

BitOr(a, b) ==
    IF a = 0 THEN b
    ELSE IF b = 0 THEN a
    ELSE IF a = -1 \/ b = -1 THEN -1
    ELSE 2 * BitOr(a \div 2, b \div 2)
           + (IF a % 2 = 1 \/ b % 2 = 1 THEN 1 ELSE 0)

BitXor(a, b) ==
    IF a = 0 THEN b
    ELSE IF b = 0 THEN a
    ELSE IF a = -1 /\ b = -1 THEN 0
    ELSE 2 * BitXor(a \div 2, b \div 2) + (((a % 2) + (b % 2)) % 2)

ShiftLeft(a, n) == a * (2 ^ n)

ShiftRight(a, n) == a \div (2 ^ n)

(***************************************************************************)
(* Class constants of SnowflakeGenerator.                                  *)
(***************************************************************************)
MACHINE_ID_BITS == 10

SEQUENCE_BITS == 12

\* Fault: the mask is one bit too wide.
MAX_MACHINE_ID_wide == BitXor(-1, ShiftLeft(-1, MACHINE_ID_BITS + 1))

MAX_MACHINE_ID == BitXor(-1, ShiftLeft(-1, MACHINE_ID_BITS))

MAX_SEQUENCE == BitXor(-1, ShiftLeft(-1, SEQUENCE_BITS))

MACHINE_ID_SHIFT == SEQUENCE_BITS

TIMESTAMP_LEFT_SHIFT == SEQUENCE_BITS + MACHINE_ID_BITS

(***************************************************************************)
(* Bounds of the model.                                                    *)
(***************************************************************************)
MaxTime == 1

MaxCalls == 2

MaxDelta == 5

\* Readings the clock source can give: from one below the initial
\* last_timestamp (-1) up to MaxTime.
Times == (-2)..MaxTime

\* Constructor arguments tried.
Epochs == {0, 1}

MachineIds == {-1, 0, 1023, 1024}

\* Generator objects and the callers using them; caller c calls generator c.
Gens == {1, 2}

Callers == {1, 2}

GenOf(c) == c

VARIABLES
    now,        \* the reading time() would give
    gen,        \* gen[g]: the fields of generator object g
    call,       \* call[c]: position and locals of caller c's generate_id
    returned,   \* the bag of IDs returned so far, each with its call's values
    ncalls,     \* number of generate_id calls started since the initial state
    codec       \* a pack / parse_snowflake_id exercise

vars == <<now, gen, call, returned, ncalls, codec>>

NoGen ==
    [status |-> "none", epoch |-> 0, machine_id |-> 0,
     last_timestamp |-> -1, generated_sequences |-> {}]

\* retry records that the caller's previous call ended with the exception.
NoCall == [pc |-> "idle", timestamp |-> 0, sequence |-> 0, retry |-> FALSE]

NoCodec ==
    [pc |-> "off", delta |-> 0, epoch |-> 0, machine_id |-> 0,
     sequence |-> 0, id |-> 0, parsed |-> <<0, 0, 0>>]

\* A call that ended with the exception; its locals are gone.
Raised == [pc |-> "raised", timestamp |-> 0, sequence |-> 0, retry |-> FALSE]

InProgress == {"check", "draw"}

(***************************************************************************)
(* The packing expression of generate_id and the decoder.                  *)
(***************************************************************************)
\* Fault: the operands of the subtraction are exchanged.
PackId_swapped(timestamp, epoch, machine_id, sequence) ==
    BitOr(BitOr(ShiftLeft(epoch - timestamp, TIMESTAMP_LEFT_SHIFT),
                ShiftLeft(machine_id, MACHINE_ID_SHIFT)),
          sequence)

\* Fault: the delta is shifted by MACHINE_ID_SHIFT, onto the machine id.
PackId_narrow(timestamp, epoch, machine_id, sequence) ==
    BitOr(BitOr(ShiftLeft(timestamp - epoch, MACHINE_ID_SHIFT),
                ShiftLeft(machine_id, MACHINE_ID_SHIFT)),
          sequence)

PackId(timestamp, epoch, machine_id, sequence) ==
    BitOr(BitOr(ShiftLeft(timestamp - epoch, TIMESTAMP_LEFT_SHIFT),
                ShiftLeft(machine_id, MACHINE_ID_SHIFT)),
          sequence)

\* Fault: the epoch is not added back.
parse_snowflake_id_no_epoch(snowflake_id, epoch) ==
    LET timestamp == ShiftRight(snowflake_id, TIMESTAMP_LEFT_SHIFT)
        machine_id == BitAnd(ShiftRight(snowflake_id, MACHINE_ID_SHIFT),
                             MAX_MACHINE_ID)
        sequence == BitAnd(snowflake_id, MAX_SEQUENCE)
    IN  <<timestamp, machine_id, sequence>>

\* Fault: the machine id is shifted down but not masked.
parse_snowflake_id_no_mask(snowflake_id, epoch) ==
    LET timestamp == ShiftRight(snowflake_id, TIMESTAMP_LEFT_SHIFT) + epoch
        machine_id == ShiftRight(snowflake_id, MACHINE_ID_SHIFT)
        sequence == BitAnd(snowflake_id, MAX_SEQUENCE)
    IN  <<timestamp, machine_id, sequence>>

\* Fault: the delta is subtracted from the epoch instead of added to it.
parse_snowflake_id_negated(snowflake_id, epoch) ==
    LET timestamp == epoch - ShiftRight(snowflake_id, TIMESTAMP_LEFT_SHIFT)
        machine_id == BitAnd(ShiftRight(snowflake_id, MACHINE_ID_SHIFT),
                             MAX_MACHINE_ID)
        sequence == BitAnd(snowflake_id, MAX_SEQUENCE)
    IN  <<timestamp, machine_id, sequence>>

parse_snowflake_id(snowflake_id, epoch) ==
    LET timestamp == ShiftRight(snowflake_id, TIMESTAMP_LEFT_SHIFT) + epoch
        machine_id == BitAnd(ShiftRight(snowflake_id, MACHINE_ID_SHIFT),
                             MAX_MACHINE_ID)
        sequence == BitAnd(snowflake_id, MAX_SEQUENCE)
    IN  <<timestamp, machine_id, sequence>>

(***************************************************************************)
(* random.randint(0, MAX_SEQUENCE): any value of the range may come out.   *)
(* The draws followed are the two ends of the range and the least value    *)
(* not yet used, so that an unused value can be drawn whenever one exists. *)
(***************************************************************************)
LeastUnused(used) ==
    LET top == IF Cardinality(used) < MAX_SEQUENCE
               THEN Cardinality(used) ELSE MAX_SEQUENCE
    IN  {s \in 0..top : s \notin used /\ \A u \in 0..(s - 1) : u \in used}

\* Fault: the draw is not random, it is 0 every time.
randint_zero(used) == {0}

randint(used) == {0, MAX_SEQUENCE} \cup LeastUnused(used)

(***************************************************************************)
(* Initial state: no generator constructed, no call made.                  *)
(***************************************************************************)
Init ==
    /\ now \in Times
    /\ gen = [g \in Gens |-> NoGen]
    /\ call = [c \in Callers |-> NoCall]
    /\ returned = EmptyBag
    /\ ncalls = 0
    /\ codec = NoCodec

\* Fault: the upper limit is compared with >=, rejecting MAX_MACHINE_ID.
Construct_ge(g) ==
    /\ gen[g].status \in {"none", "invalid"}
    /\ \E epoch \in Epochs, machine_id \in MachineIds :
          gen' = [gen EXCEPT ![g] =
                    [status |-> IF machine_id < 0 \/ machine_id >= MAX_MACHINE_ID
                                THEN "invalid" ELSE "ok",
                     epoch |-> epoch,
                     machine_id |-> machine_id,
                     last_timestamp |-> -1,
                     generated_sequences |-> {}]]
    /\ UNCHANGED <<now, call, returned, ncalls, codec>>

(***************************************************************************)
(* SnowflakeGenerator.__init__: the fields are assigned first, then the    *)
(* machine id is validated; a rejected construction yields no object,      *)
(* and the caller may construct again.                                     *)
(***************************************************************************)
Construct(g) ==
    /\ gen[g].status \in {"none", "invalid"}
    /\ \E epoch \in Epochs, machine_id \in MachineIds :
          gen' = [gen EXCEPT ![g] =
                    [status |-> IF machine_id < 0 \/ machine_id > MAX_MACHINE_ID
                                THEN "invalid" ELSE "ok",
                     epoch |-> epoch,
                     machine_id |-> machine_id,
                     last_timestamp |-> -1,
                     generated_sequences |-> {}]]
    /\ UNCHANGED <<now, call, returned, ncalls, codec>>

(***************************************************************************)
(* The clock source: time() of the host, which may be stepped forwards or  *)
(* backwards at any moment.                                                *)
(***************************************************************************)
ClockAdvance ==
    /\ \E t \in Times : t > now /\ now' = t
    /\ UNCHANGED <<gen, call, returned, ncalls, codec>>

ClockRegress ==
    /\ \E t \in Times : t < now /\ now' = t
    /\ UNCHANGED <<gen, call, returned, ncalls, codec>>

(***************************************************************************)
(* generate_id: the clock is read, the reading is tested against           *)
(* last_timestamp, and the loop draws until it finds an unused value.      *)
(***************************************************************************)
\* timestamp = self.current_time()
generate_id_read(c) ==
    /\ gen[GenOf(c)].status = "ok"
    /\ call[c].pc \notin InProgress
    /\ ncalls < MaxCalls
    /\ ncalls' = ncalls + 1
    /\ call' = [call EXCEPT ![c] =
                  [pc |-> "check", timestamp |-> now, sequence |-> 0,
                   retry |-> (call[c].pc = "raised")]]
    /\ UNCHANGED <<now, gen, returned, codec>>

\* Fault: the timestamp is stored before the regression is reported.
generate_id_check_store(c) ==
    /\ call[c].pc = "check"
    /\ IF call[c].timestamp < gen[GenOf(c)].last_timestamp
       THEN /\ call' = [call EXCEPT ![c] = Raised]
            /\ gen' = [gen EXCEPT ![GenOf(c)].generated_sequences = {},
                                  ![GenOf(c)].last_timestamp = call[c].timestamp]
       ELSE /\ call' = [call EXCEPT ![c].pc = "draw"]
            /\ gen' = IF call[c].timestamp # gen[GenOf(c)].last_timestamp
                      THEN [gen EXCEPT
                              ![GenOf(c)].generated_sequences = {},
                              ![GenOf(c)].last_timestamp = call[c].timestamp]
                      ELSE gen
    /\ UNCHANGED <<now, returned, ncalls, codec>>

\* Fault: the regression test is <=, rejecting a reading equal to the last.
generate_id_check_le(c) ==
    /\ call[c].pc = "check"
    /\ IF call[c].timestamp <= gen[GenOf(c)].last_timestamp
       THEN /\ call' = [call EXCEPT ![c] = Raised]
            /\ gen' = gen
       ELSE /\ call' = [call EXCEPT ![c].pc = "draw"]
            /\ gen' = IF call[c].timestamp # gen[GenOf(c)].last_timestamp
                      THEN [gen EXCEPT
                              ![GenOf(c)].generated_sequences = {},
                              ![GenOf(c)].last_timestamp = call[c].timestamp]
                      ELSE gen
    /\ UNCHANGED <<now, returned, ncalls, codec>>

\* Fault: the set is not cleared when the reading changes.
generate_id_check_noclear(c) ==
    /\ call[c].pc = "check"
    /\ IF call[c].timestamp < gen[GenOf(c)].last_timestamp
       THEN /\ call' = [call EXCEPT ![c] = Raised]
            /\ gen' = gen
       ELSE /\ call' = [call EXCEPT ![c].pc = "draw"]
            /\ gen' = [gen EXCEPT
                         ![GenOf(c)].last_timestamp = call[c].timestamp]
    /\ UNCHANGED <<now, returned, ncalls, codec>>

\* Fault: the set is emptied when the regression is reported.
generate_id_check_forget(c) ==
    /\ call[c].pc = "check"
    /\ IF call[c].timestamp < gen[GenOf(c)].last_timestamp
       THEN /\ call' = [call EXCEPT ![c] = Raised]
            /\ gen' = [gen EXCEPT ![GenOf(c)].generated_sequences = {}]
       ELSE /\ call' = [call EXCEPT ![c].pc = "draw"]
            /\ gen' = IF call[c].timestamp # gen[GenOf(c)].last_timestamp
                      THEN [gen EXCEPT
                              ![GenOf(c)].generated_sequences = {},
                              ![GenOf(c)].last_timestamp = call[c].timestamp]
                      ELSE gen
    /\ UNCHANGED <<now, returned, ncalls, codec>>

\* Fault: the reading is stored in epoch instead of last_timestamp.
generate_id_check_rebase(c) ==
    /\ call[c].pc = "check"
    /\ IF call[c].timestamp < gen[GenOf(c)].last_timestamp
       THEN /\ call' = [call EXCEPT ![c] = Raised]
            /\ gen' = gen
       ELSE /\ call' = [call EXCEPT ![c].pc = "draw"]
            /\ gen' = IF call[c].timestamp # gen[GenOf(c)].last_timestamp
                      THEN [gen EXCEPT
                              ![GenOf(c)].generated_sequences = {},
                              ![GenOf(c)].epoch = call[c].timestamp]
                      ELSE gen
    /\ UNCHANGED <<now, returned, ncalls, codec>>

\* if timestamp < self.last_timestamp: raise Exception(...)
\* if timestamp != self.last_timestamp: clear the set, store the timestamp
generate_id_check(c) ==
    /\ call[c].pc = "check"
    /\ IF call[c].timestamp < gen[GenOf(c)].last_timestamp
       THEN /\ call' = [call EXCEPT ![c] = Raised]
            /\ gen' = gen
       ELSE /\ call' = [call EXCEPT ![c].pc = "draw"]
            /\ gen' = IF call[c].timestamp # gen[GenOf(c)].last_timestamp
                      THEN [gen EXCEPT
                              ![GenOf(c)].generated_sequences = {},
                              ![GenOf(c)].last_timestamp = call[c].timestamp]
                      ELSE gen
    /\ UNCHANGED <<now, returned, ncalls, codec>>

\* Fault: the accepted value is not added to the set.
generate_id_draw_noadd(c) ==
    /\ call[c].pc = "draw"
    /\ \E sequence \in randint(gen[GenOf(c)].generated_sequences) :
          IF sequence \notin gen[GenOf(c)].generated_sequences
          THEN /\ gen' = gen
               /\ returned' = returned (+) SetToBag({
                      [g |-> GenOf(c),
                       timestamp |-> call[c].timestamp,
                       sequence |-> sequence,
                       retry |-> call[c].retry,
                       id |-> PackId(call[c].timestamp, gen[GenOf(c)].epoch,
                                     gen[GenOf(c)].machine_id, sequence)]})
               /\ call' = [call EXCEPT ![c] = NoCall]
          ELSE /\ gen' = gen
               /\ returned' = returned
               /\ call' = [call EXCEPT ![c].sequence = sequence]
    /\ UNCHANGED <<now, ncalls, codec>>

\* Fault: the drawn value is accepted without the membership test.
generate_id_draw_untested(c) ==
    /\ call[c].pc = "draw"
    /\ \E sequence \in randint(gen[GenOf(c)].generated_sequences) :
          /\ gen' = [gen EXCEPT ![GenOf(c)].generated_sequences =
                                   @ \cup {sequence}]
          /\ returned' = returned (+) SetToBag({
                 [g |-> GenOf(c),
                  timestamp |-> call[c].timestamp,
                  sequence |-> sequence,
                  retry |-> call[c].retry,
                  id |-> PackId(call[c].timestamp, gen[GenOf(c)].epoch,
                                gen[GenOf(c)].machine_id, sequence)]})
          /\ call' = [call EXCEPT ![c] = NoCall]
    /\ UNCHANGED <<now, ncalls, codec>>

\* One iteration of the while loop: draw and test.  A value already in the
\* set is rejected and the loop goes round again; a new value is added, the
\* loop is left, and the ID is packed from the locals and returned.
generate_id_draw(c) ==
    /\ call[c].pc = "draw"
    /\ \E sequence \in randint(gen[GenOf(c)].generated_sequences) :
          IF sequence \notin gen[GenOf(c)].generated_sequences
          THEN /\ gen' = [gen EXCEPT ![GenOf(c)].generated_sequences =
                                        @ \cup {sequence}]
               /\ returned' = returned (+) SetToBag({
                      [g |-> GenOf(c),
                       timestamp |-> call[c].timestamp,
                       sequence |-> sequence,
                       retry |-> call[c].retry,
                       id |-> PackId(call[c].timestamp, gen[GenOf(c)].epoch,
                                     gen[GenOf(c)].machine_id, sequence)]})
               /\ call' = [call EXCEPT ![c] = NoCall]
          ELSE /\ gen' = gen
               /\ returned' = returned
               /\ call' = [call EXCEPT ![c].sequence = sequence]
    /\ UNCHANGED <<now, ncalls, codec>>

generate_id(c) ==
    \/ generate_id_read(c)
    \/ generate_id_check(c)
    \/ generate_id_draw(c)

\* The iteration of the loop whose draw is accepted.
generate_id_accept(c) == generate_id_draw(c) /\ call'[c].pc = "idle"

Next ==
    \/ \E g \in Gens : Construct(g)
    \/ ClockAdvance
    \/ ClockRegress
    \/ \E c \in Callers : generate_id(c)

Spec == Init /\ [][Next]_vars

TypeOK ==
    /\ now \in Times
    /\ \A g \in Gens : gen[g].status \in {"none", "invalid", "ok"}
    /\ \A c \in Callers : call[c].pc \in InProgress \cup {"idle", "raised"}
    /\ \A c \in Callers : call[c].retry \in BOOLEAN
    /\ ncalls \in 0..MaxCalls

\* The calls that returned an ID, one record per call.
Returned == BagToSet(returned)

(***************************************************************************)
(* The same program under a clock that never goes backwards and never      *)
(* gives a negative reading.                                               *)
(***************************************************************************)
InitMono == Init /\ now >= 0

NextMono ==
    \/ \E g \in Gens : Construct(g)
    \/ ClockAdvance
    \/ \E c \in Callers : generate_id(c)

SpecMono == InitMono /\ [][NextMono]_vars

(***************************************************************************)
(* The bit layout on its own: a delta, a machine id and a sequence are     *)
(* packed with the expression of generate_id and the result is given to    *)
(* parse_snowflake_id.                                                     *)
(***************************************************************************)
CodecMachineIds == {0, 1, 1022, 1023}

CodecSequences == {0, 1, 4094, 4095}

InitCodec ==
    /\ now = 0
    /\ gen = [g \in Gens |-> NoGen]
    /\ call = [c \in Callers |-> NoCall]
    /\ returned = EmptyBag
    /\ ncalls = 0
    /\ \E delta \in 0..MaxDelta, epoch \in Epochs,
          machine_id \in CodecMachineIds, sequence \in CodecSequences :
          codec = [NoCodec EXCEPT !.pc = "start", !.delta = delta,
                                  !.epoch = epoch, !.machine_id = machine_id,
                                  !.sequence = sequence]

CodecPack ==
    /\ codec.pc = "start"
    /\ codec' = [codec EXCEPT
                   !.pc = "packed",
                   !.id = PackId(codec.delta + codec.epoch, codec.epoch,
                                 codec.machine_id, codec.sequence)]
    /\ UNCHANGED <<now, gen, call, returned, ncalls>>

CodecParse ==
    /\ codec.pc = "packed"
    /\ codec' = [codec EXCEPT
                   !.pc = "parsed",
                   !.parsed = parse_snowflake_id(codec.id, codec.epoch)]
    /\ UNCHANGED <<now, gen, call, returned, ncalls>>

NextCodec == CodecPack \/ CodecParse

SpecCodec == InitCodec /\ [][NextCodec]_vars

(***************************************************************************)
(* A generator that has already handed out every sequence value but the    *)
(* last one at reading 0: the state after MAX_SEQUENCE calls made while    *)
(* the clock stood at 0, whose draws were 0, 1, ..., MAX_SEQUENCE - 1.     *)
(* The clock never goes backwards, the callers keep running and the clock  *)
(* keeps advancing while it can.                                           *)
(***************************************************************************)
InitExhaust ==
    /\ now = 0
    /\ gen = [g \in Gens |->
                IF g = 1
                THEN [status |-> "ok", epoch |-> 0, machine_id |-> 0,
                      last_timestamp |-> 0,
                      generated_sequences |-> 0..(MAX_SEQUENCE - 1)]
                ELSE NoGen]
    /\ call = [c \in Callers |-> NoCall]
    /\ returned = SetToBag({[g |-> 1, timestamp |-> 0, sequence |-> s,
                             retry |-> FALSE, id |-> PackId(0, 0, 0, s)] :
                                s \in 0..(MAX_SEQUENCE - 1)})
    /\ ncalls = 0
    /\ codec = NoCodec

SpecExhaust ==
    /\ InitExhaust
    /\ [][NextMono]_vars
    /\ \A c \in Callers : WF_vars(generate_id(c))
    /\ WF_vars(ClockAdvance)

\* The same start and that generator alone, under a clock that moves either
\* way, where all that is asked of the run is that the loop's draw does not
\* avoid the unused values for ever.
NextFairDraw ==
    \/ ClockAdvance
    \/ ClockRegress
    \/ \E c \in Callers : generate_id(c)

SpecFairDraw ==
    /\ InitExhaust
    /\ [][NextFairDraw]_vars
    /\ \A c \in Callers : WF_vars(generate_id_accept(c))

(***************************************************************************)
(* Two callers sharing one generator without mutual exclusion.  Both       *)
(* callers call the same object and generate_id is followed statement by   *)
(* statement, a switch to the other caller being possible between any two  *)
(* statements.  The flag raced of a call records that another call on the  *)
(* object was in progress at some moment of the call.                      *)
(***************************************************************************)
RaceGen == CHOOSE g \in Gens : \A h \in Gens : g <= h

RaceInProgress ==
    {"check", "differs", "clear", "store", "draw", "test", "add", "pack"}

InitRace ==
    /\ now \in Times
    /\ \E epoch \in Epochs :
          gen = [g \in Gens |->
                   IF g = RaceGen
                   THEN [status |-> "ok", epoch |-> epoch, machine_id |-> 1023,
                         last_timestamp |-> -1, generated_sequences |-> {}]
                   ELSE NoGen]
    /\ call = [c \in Callers |->
                 [pc |-> "idle", timestamp |-> 0, sequence |-> 0,
                  raced |-> FALSE]]
    /\ returned = EmptyBag
    /\ ncalls = 0
    /\ codec = NoCodec

\* timestamp = self.current_time()
race_read(c) ==
    /\ call[c].pc \notin RaceInProgress
    /\ ncalls < MaxCalls
    /\ ncalls' = ncalls + 1
    /\ call' = [d \in Callers |->
                  IF d = c
                  THEN [pc |-> "check", timestamp |-> now, sequence |-> 0,
                        raced |-> \E e \in Callers \ {c} :
                                     call[e].pc \in RaceInProgress]
                  ELSE IF call[d].pc \in RaceInProgress
                       THEN [call[d] EXCEPT !.raced = TRUE]
                       ELSE call[d]]
    /\ UNCHANGED <<now, gen, returned, codec>>

\* Fault: the regression test is <=.
race_check_le(c) ==
    /\ call[c].pc = "check"
    /\ call' = [call EXCEPT ![c] =
                  IF call[c].timestamp <= gen[RaceGen].last_timestamp
                  THEN [pc |-> "raised", timestamp |-> 0, sequence |-> 0,
                        raced |-> call[c].raced]
                  ELSE [@ EXCEPT !.pc = "differs"]]
    /\ UNCHANGED <<now, gen, returned, ncalls, codec>>

\* if timestamp < self.last_timestamp: raise Exception(...)
race_check(c) ==
    /\ call[c].pc = "check"
    /\ call' = [call EXCEPT ![c] =
                  IF call[c].timestamp < gen[RaceGen].last_timestamp
                  THEN [pc |-> "raised", timestamp |-> 0, sequence |-> 0,
                        raced |-> call[c].raced]
                  ELSE [@ EXCEPT !.pc = "differs"]]
    /\ UNCHANGED <<now, gen, returned, ncalls, codec>>

\* if timestamp != self.last_timestamp:
race_differs(c) ==
    /\ call[c].pc = "differs"
    /\ call' = [call EXCEPT ![c].pc =
                  IF call[c].timestamp # gen[RaceGen].last_timestamp
                  THEN "clear" ELSE "draw"]
    /\ UNCHANGED <<now, gen, returned, ncalls, codec>>

\* self.generated_sequences.clear()
race_clear(c) ==
    /\ call[c].pc = "clear"
    /\ gen' = [gen EXCEPT ![RaceGen].generated_sequences = {}]
    /\ call' = [call EXCEPT ![c].pc = "store"]
    /\ UNCHANGED <<now, returned, ncalls, codec>>

\* self.last_timestamp = timestamp
race_store(c) ==
    /\ call[c].pc = "store"
    /\ gen' = [gen EXCEPT ![RaceGen].last_timestamp = call[c].timestamp]
    /\ call' = [call EXCEPT ![c].pc = "draw"]
    /\ UNCHANGED <<now, returned, ncalls, codec>>

\* sequence = random.randint(0, SnowflakeGenerator.MAX_SEQUENCE)
race_draw(c) ==
    /\ call[c].pc = "draw"
    /\ \E sequence \in randint(gen[RaceGen].generated_sequences) :
          call' = [call EXCEPT ![c].sequence = sequence, ![c].pc = "test"]
    /\ UNCHANGED <<now, gen, returned, ncalls, codec>>

\* Fault: the membership test is left out.
race_test_always(c) ==
    /\ call[c].pc = "test"
    /\ call' = [call EXCEPT ![c].pc = "add"]
    /\ UNCHANGED <<now, gen, returned, ncalls, codec>>

\* if sequence not in self.generated_sequences:
race_test(c) ==
    /\ call[c].pc = "test"
    /\ call' = [call EXCEPT ![c].pc =
                  IF call[c].sequence \notin gen[RaceGen].generated_sequences
                  THEN "add" ELSE "draw"]
    /\ UNCHANGED <<now, gen, returned, ncalls, codec>>

\* self.generated_sequences.add(sequence); break
race_add(c) ==
    /\ call[c].pc = "add"
    /\ gen' = [gen EXCEPT ![RaceGen].generated_sequences =
                             @ \cup {call[c].sequence}]
    /\ call' = [call EXCEPT ![c].pc = "pack"]
    /\ UNCHANGED <<now, returned, ncalls, codec>>

\* id = (...) | (...) | sequence; return id
race_return(c) ==
    /\ call[c].pc = "pack"
    /\ returned' = returned (+) SetToBag({
           [g |-> RaceGen,
            timestamp |-> call[c].timestamp,
            sequence |-> call[c].sequence,
            raced |-> call[c].raced,
            id |-> PackId(call[c].timestamp, gen[RaceGen].epoch,
                          gen[RaceGen].machine_id, call[c].sequence)]})
    /\ call' = [call EXCEPT ![c] =
                  [pc |-> "idle", timestamp |-> 0, sequence |-> 0,
                   raced |-> FALSE]]
    /\ UNCHANGED <<now, gen, ncalls, codec>>

race_generate_id(c) ==
    \/ race_read(c)
    \/ race_check(c)
    \/ race_differs(c)
    \/ race_clear(c)
    \/ race_store(c)
    \/ race_draw(c)
    \/ race_test(c)
    \/ race_add(c)
    \/ race_return(c)

NextRace ==
    \/ ClockAdvance
    \/ ClockRegress
    \/ \E c \in Callers : race_generate_id(c)

SpecRace == InitRace /\ [][NextRace]_vars

\* The same under a clock that never goes backwards and is never negative.
InitRaceMono == InitRace /\ now >= 0

NextRaceMono ==
    \/ ClockAdvance
    \/ \E c \in Callers : race_generate_id(c)

SpecRaceMono == InitRaceMono /\ [][NextRaceMono]_vars

(***************************************************************************)
(* A generator in use: it has just answered one call, its first, made at   *)
(* reading 0 with a draw of one of the two ends of the range.  From there  *)
(* the clock moves either way; a call that has passed the regression test  *)
(* is carried on, and its loop does not avoid the unused values for ever.  *)
(***************************************************************************)
InitUsed ==
    /\ now = 0
    /\ \E epoch \in Epochs, sequence \in {0, MAX_SEQUENCE} :
          /\ gen = [g \in Gens |->
                      IF g = 1
                      THEN [status |-> "ok", epoch |-> epoch,
                            machine_id |-> MAX_MACHINE_ID,
                            last_timestamp |-> 0,
                            generated_sequences |-> {sequence}]
                      ELSE NoGen]
          /\ returned = SetToBag({
                 [g |-> 1, timestamp |-> 0, sequence |-> sequence,
                  retry |-> FALSE,
                  id |-> PackId(0, epoch, MAX_MACHINE_ID, sequence)]})
    /\ call = [c \in Callers |-> NoCall]
    /\ ncalls = 0
    /\ codec = NoCodec

NextUsed ==
    \/ ClockAdvance
    \/ ClockRegress
    \/ \E c \in Callers : generate_id(c)

SpecUsed ==
    /\ InitUsed
    /\ [][NextUsed]_vars
    /\ \A c \in Callers : /\ WF_vars(generate_id_check(c))
                          /\ WF_vars(generate_id_accept(c))

(***************************************************************************)
(* The generators together with a caller of parse_snowflake_id, who gives  *)
(* it an ID that some generate_id call returned and an epoch of the        *)
(* caller's choice, as the usage example does with its last ID.            *)
(***************************************************************************)
Parse ==
    /\ \E r \in Returned, epoch \in Epochs :
          codec' = [NoCodec EXCEPT
                      !.pc = "parsed", !.id = r.id, !.epoch = epoch,
                      !.parsed = parse_snowflake_id(r.id, epoch)]
    /\ UNCHANGED <<now, gen, call, returned, ncalls>>

\* Both generators constructed, on machines 0 and MAX_MACHINE_ID.
InitFrame ==
    /\ now \in Times
    /\ \E epoch \in Epochs :
          gen = [g \in Gens |->
                   [status |-> "ok", epoch |-> epoch,
                    machine_id |-> IF g = 1 THEN 0 ELSE MAX_MACHINE_ID,
                    last_timestamp |-> -1,
                    generated_sequences |-> {}]]
    /\ call = [c \in Callers |-> NoCall]
    /\ returned = EmptyBag
    /\ ncalls = 0
    /\ codec = NoCodec

NextFrame ==
    \/ ClockAdvance
    \/ ClockRegress
    \/ \E c \in Callers : generate_id(c)
    \/ Parse

SpecFrame == InitFrame /\ [][NextFrame]_vars

(***************************************************************************)
(* Generators whose process may be restarted between calls: the object is  *)
(* constructed anew with the epoch and machine id it had, and nothing of   *)
(* the old object is kept.  restarted records that this has happened.      *)
(***************************************************************************)
InitRestart ==
    /\ now \in Times
    /\ \E epoch \in Epochs :
          gen = [g \in Gens |->
                   [status |-> "ok", epoch |-> epoch,
                    machine_id |-> IF g = 1 THEN 0 ELSE MAX_MACHINE_ID,
                    last_timestamp |-> -1,
                    generated_sequences |-> {},
                    restarted |-> FALSE]]
    /\ call = [c \in Callers |-> NoCall]
    /\ returned = EmptyBag
    /\ ncalls = 0
    /\ codec = NoCodec

Restart(g) ==
    /\ gen[g].status = "ok"
    /\ \A c \in Callers : GenOf(c) = g => call[c].pc \notin InProgress
    /\ gen' = [gen EXCEPT ![g] =
                 [status |-> "ok", epoch |-> gen[g].epoch,
                  machine_id |-> gen[g].machine_id,
                  last_timestamp |-> -1,
                  generated_sequences |-> {},
                  restarted |-> TRUE]]
    /\ call' = [c \in Callers |-> IF GenOf(c) = g THEN NoCall ELSE call[c]]
    /\ UNCHANGED <<now, returned, ncalls, codec>>

NextRestart ==
    \/ ClockAdvance
    \/ ClockRegress
    \/ \E c \in Callers : generate_id(c)
    \/ \E g \in Gens : Restart(g)

SpecRestart == InitRestart /\ [][NextRestart]_vars

(***************************************************************************)
(* C1.  For one generator and serialized generate_id calls under any clock *)
(* behaviour, no two calls that returned an ID returned the same ID; two   *)
(* calls that read the same clock value got different sequence values.     *)
(***************************************************************************)
C1_UniqueIds ==
    \A r \in Returned :
        /\ returned[r] = 1
        /\ \A q \in Returned :
              (q # r /\ q.g = r.g) =>
                  /\ q.id # r.id
                  /\ q.timestamp = r.timestamp => q.sequence # r.sequence

\* Two IDs were returned by one generator at the same reading.
C1_Witness ==
    \E r, q \in Returned : q # r /\ q.g = r.g /\ q.timestamp = r.timestamp

(***************************************************************************)
(* C2.  Round trip: parse_snowflake_id applied to a returned ID and the    *)
(* generator's epoch gives the clock reading of the call, the generator's  *)
(* machine id and the sequence value the call put into the set.            *)
(***************************************************************************)
C2_RoundTrip ==
    \A r \in Returned :
        parse_snowflake_id(r.id, gen[r.g].epoch)
            = <<r.timestamp, gen[r.g].machine_id, r.sequence>>

\* An ID was returned with every field non-zero, at a reading below and at
\* a reading above the epoch.
C2_Witness ==
    /\ \E r \in Returned :
          /\ gen[r.g].epoch = 1 /\ gen[r.g].machine_id = 1023
          /\ r.sequence = 4095 /\ r.timestamp < gen[r.g].epoch
    /\ \E r \in Returned :
          /\ gen[r.g].machine_id = 1023
          /\ r.sequence > 0 /\ r.timestamp > gen[r.g].epoch

(***************************************************************************)
(* C3.  A call whose reading is strictly below last_timestamp ends with    *)
(* the exception at its regression test, returns no ID and leaves every    *)
(* generator's last_timestamp and sequence set as they were.               *)
(***************************************************************************)
C3_RegressionRejected ==
    [][\A c \in Callers :
          (/\ call[c].pc = "check"
           /\ call[c].timestamp < gen[GenOf(c)].last_timestamp
           /\ call'[c] # call[c])
          => /\ call'[c].pc = "raised"
             /\ gen' = gen
             /\ returned' = returned]_vars

\* A call has failed on a generator that had returned an ID before.
C3_Witness ==
    \E c \in Callers :
        /\ call[c].pc = "raised"
        /\ gen[GenOf(c)].last_timestamp >= 0
        /\ gen[GenOf(c)].generated_sequences # {}
        /\ \E r \in Returned : r.g = GenOf(c)

(***************************************************************************)
(* C4.  Construction succeeds exactly for the machine ids 0..1023,         *)
(* whatever the epoch.                                                     *)
(***************************************************************************)
C4_MachineIdRange ==
    \A g \in Gens :
        gen[g].status # "none" =>
            (gen[g].status = "ok"
                <=> (0 <= gen[g].machine_id /\ gen[g].machine_id <= 1023))

\* Both boundaries were accepted and both neighbours rejected.
C4_Witness ==
    /\ \E g, h \in Gens :
          /\ gen[g].status = "ok" /\ gen[g].machine_id = 1023
          /\ gen[h].status = "invalid" /\ gen[h].machine_id = 1024

(***************************************************************************)
(* C5.  A call that is in its while loop with all 4096 sequence values of  *)
(* its reading used, while the clock has moved on to a later reading,      *)
(* eventually returns.                                                     *)
(***************************************************************************)
Exhausted(c) ==
    /\ call[c].pc = "draw"
    /\ gen[GenOf(c)].generated_sequences = 0..4095
    /\ now > call[c].timestamp

C5_ExhaustionWaitsForClock ==
    \A c \in Callers : Exhausted(c) ~> (call[c].pc = "idle")

(***************************************************************************)
(* C6.  Of two IDs returned by one generator from calls with readings      *)
(* t1 < t2, the timestamp decoded from the first is at most the timestamp  *)
(* decoded from the second.                                                *)
(***************************************************************************)
C6_MonotonicTimestamp ==
    \A r, q \in Returned :
        (r.g = q.g /\ r.timestamp < q.timestamp) =>
            parse_snowflake_id(r.id, gen[r.g].epoch)[1]
                <= parse_snowflake_id(q.id, gen[q.g].epoch)[1]

\* One generator returned IDs at two different readings.
C6_Witness ==
    \E r, q \in Returned : r.g = q.g /\ r.timestamp < q.timestamp

(***************************************************************************)
(* C7.  Field masking: (delta << 22) | (machine_id << 12) | sequence with  *)
(* delta >= 0, machine_id in 0..1023 and sequence in 0..4095 decodes to    *)
(* exactly (delta + epoch, machine_id, sequence).                          *)
(***************************************************************************)
C7_FieldMasking ==
    codec.pc = "parsed" =>
        codec.parsed = <<codec.delta + codec.epoch, codec.machine_id,
                         codec.sequence>>

\* The largest machine id and sequence were packed under a positive delta
\* and decoded.
C7_Witness ==
    /\ codec.pc = "parsed"
    /\ codec.delta > 0 /\ codec.machine_id = 1023 /\ codec.sequence = 4095
    /\ codec.id = codec.delta * 4194304 + 4194303

(***************************************************************************)
(* C8.  Two generators with the same epoch and different machine ids never *)
(* return the same ID, whatever the readings and the interleaving.         *)
(***************************************************************************)
C8_DistinctAcrossMachines ==
    \A r, q \in Returned :
        (/\ r.g # q.g
         /\ gen[r.g].epoch = gen[q.g].epoch
         /\ gen[r.g].machine_id # gen[q.g].machine_id)
        => r.id # q.id

\* Two generators with one epoch and different machine ids returned IDs
\* carrying the same reading and the same sequence.
C8_Witness ==
    \E r, q \in Returned :
        /\ r.g # q.g
        /\ gen[r.g].epoch = gen[q.g].epoch
        /\ gen[r.g].machine_id # gen[q.g].machine_id
        /\ r.timestamp = q.timestamp /\ r.sequence = q.sequence

(***************************************************************************)
(* C9.  Under a clock that never decreases and is never negative no call   *)
(* ends with the clock-regression exception, neither the first call on a   *)
(* new generator nor a later one.                                          *)
(***************************************************************************)
C9_NoRegressionUnderMonotonicClock ==
    \A c \in Callers : call[c].pc # "raised"

\* A generator passed the regression test on its first call and again on a
\* later call, at the same or a later reading.
C9_Witness ==
    \E r, q \in Returned :
        /\ r.g = q.g /\ r # q
        /\ r.timestamp <= q.timestamp
        /\ gen[r.g].last_timestamp = q.timestamp

(***************************************************************************)
(* C10.  As claimed: every returned ID lies in 0 .. 2^64 - 1.              *)
(* (id < 2^64 is written floor(floor(id / 2^22) / 2^21) < 2^21.)           *)
(***************************************************************************)
IsUint64(id) == id >= 0 /\ (id \div 4194304) \div 2097152 < 2097152

C10_AlwaysUint64 ==
    \A r \in Returned : IsUint64(r.id)

(***************************************************************************)
(* C10, amended.  Every ID returned by a call whose reading is at or above *)
(* the epoch and less than 2^42 above it lies in 0 .. 2^64 - 1.            *)
(***************************************************************************)
C10_Uint64FromEpochOn ==
    \A r \in Returned :
        (/\ r.timestamp - gen[r.g].epoch >= 0
         /\ (r.timestamp - gen[r.g].epoch) \div 2097152 < 2097152)
        => IsUint64(r.id)

\* An ID was returned at a reading above the epoch.
C10_Witness ==
    \E r \in Returned : r.timestamp > gen[r.g].epoch /\ r.id > 4194303

(***************************************************************************)
(* C11.  With two callers sharing one generator and no mutual exclusion,   *)
(* two calls can return the same ID (C11_Witness is reachable), and an ID  *)
(* is returned twice only by calls of which one was interleaved with       *)
(* another call.                                                           *)
(***************************************************************************)
C11_DuplicateOnlyWhenInterleaved ==
    \A r \in Returned :
        /\ returned[r] > 1 => r.raced
        /\ \A q \in Returned : (q # r /\ q.id = r.id) => (r.raced \/ q.raced)

\* Two calls have returned the same ID: same timestamp, machine id and
\* sequence.
C11_Witness ==
    \E r \in Returned :
        \/ returned[r] > 1
        \/ \E q \in Returned :
              /\ q # r /\ q.id = r.id
              /\ q.timestamp = r.timestamp /\ q.sequence = r.sequence

(***************************************************************************)
(* C12.  With two callers sharing one generator, no mutual exclusion and a *)
(* clock that never decreases, a call can end with the clock-regression    *)
(* exception (C12_Witness is reachable), and it does so only when it was   *)
(* interleaved with another call.                                          *)
(***************************************************************************)
C12_SpuriousOnlyWhenInterleaved ==
    \A c \in Callers : call[c].pc = "raised" => call[c].raced

\* A call has ended with the exception although the clock never decreased:
\* its reading was taken before the other caller stored a later one.
C12_Witness ==
    \E c \in Callers :
        /\ call[c].pc = "raised"
        /\ gen[RaceGen].last_timestamp <= now

(***************************************************************************)
(* C13.  Between serialized calls the used-sequence set of a generator is  *)
(* exactly the set of sequence values of the IDs returned at reading       *)
(* last_timestamp: as many elements as IDs returned at that reading, all   *)
(* in 0..4095, and not empty once a call has succeeded.  last_timestamp    *)
(* never decreases, failed calls included.  As claimed, every call whose   *)
(* reading differs from last_timestamp empties the set and stores the      *)
(* reading.                                                                *)
(***************************************************************************)
Idle(g) == \A c \in Callers : GenOf(c) = g => call[c].pc \notin InProgress

ReturnedAtLast(g) ==
    {r \in Returned : r.g = g /\ r.timestamp = gen[g].last_timestamp}

UsedSetInvariant ==
    \A g \in Gens :
        (gen[g].status = "ok" /\ Idle(g)) =>
            /\ gen[g].generated_sequences
                  = {r.sequence : r \in ReturnedAtLast(g)}
            /\ Cardinality(gen[g].generated_sequences)
                  = Cardinality(ReturnedAtLast(g))
            /\ \A r \in ReturnedAtLast(g) : returned[r] = 1
            /\ \A s \in gen[g].generated_sequences : 0 <= s /\ s <= 4095
            /\ (\E r \in Returned : r.g = g)
                  => gen[g].generated_sequences # {}

LastTimestampGrows ==
    \A g \in Gens : gen'[g].last_timestamp >= gen[g].last_timestamp

C13_AsClaimed ==
    /\ []UsedSetInvariant
    /\ [][/\ LastTimestampGrows
          /\ \A c \in Callers :
                (/\ call[c].pc = "check"
                 /\ call[c].timestamp # gen[GenOf(c)].last_timestamp
                 /\ call'[c] # call[c])
                => /\ gen'[GenOf(c)].generated_sequences = {}
                   /\ gen'[GenOf(c)].last_timestamp = call[c].timestamp]_vars

(***************************************************************************)
(* C13, amended.  The same, where the calls that empty the set and store   *)
(* the reading are those whose reading is greater than last_timestamp; a   *)
(* call whose reading is smaller fails and changes nothing.                *)
(***************************************************************************)
C13_StateInvariant ==
    /\ []UsedSetInvariant
    /\ [][/\ LastTimestampGrows
          /\ \A c \in Callers :
                (/\ call[c].pc = "check"
                 /\ call[c].timestamp > gen[GenOf(c)].last_timestamp
                 /\ call'[c] # call[c])
                => /\ gen'[GenOf(c)].generated_sequences = {}
                   /\ gen'[GenOf(c)].last_timestamp = call[c].timestamp]_vars

\* A generator between calls that returned an ID at an earlier reading and,
\* after emptying its set, another at its present last_timestamp.
C13_Witness ==
    \E g \in Gens :
        /\ gen[g].status = "ok" /\ Idle(g)
        /\ \E r \in Returned : r.g = g /\ r.timestamp < gen[g].last_timestamp
        /\ Cardinality(gen[g].generated_sequences) = 1
        /\ ReturnedAtLast(g) # {}

(***************************************************************************)
(* C14.  The regression failure is not sticky.  The call that follows a    *)
(* failed call of the same caller, if its reading is not below             *)
(* last_timestamp, does not fail; it returns, and the ID it returns is     *)
(* different from every other ID the generator has returned, those         *)
(* returned before the failure included.                                   *)
(***************************************************************************)
AfterFailure(c) ==
    /\ call[c].pc = "check"
    /\ call[c].retry
    /\ call[c].timestamp >= gen[GenOf(c)].last_timestamp

C14_FailureNotSticky ==
    /\ [](\A r \in Returned :
            r.retry => /\ returned[r] = 1
                       /\ \A q \in Returned :
                             (q # r /\ q.g = r.g) => q.id # r.id)
    /\ [][\A c \in Callers :
            (AfterFailure(c) /\ call'[c] # call[c])
                => call'[c].pc = "draw"]_vars
    /\ \A c \in Callers : AfterFailure(c) ~> (call[c].pc = "idle")

\* A call made after a failure returned an ID at the very reading at which
\* the generator had returned one before the failure.
C14_Witness ==
    \E r, q \in Returned :
        /\ r.g = q.g /\ r.retry /\ ~q.retry
        /\ r.timestamp = q.timestamp
        /\ r.id # q.id

(***************************************************************************)
(* C15.  Frame.  A constructed generator keeps its epoch and machine_id    *)
(* whatever is called; a step of generate_id changes, besides the locals   *)
(* of that call, nothing but last_timestamp and the set of the generator   *)
(* it is called on; parse_snowflake_id changes nothing of any generator    *)
(* or call, and what it returned is the function of (id, epoch) alone,     *)
(* whatever the generators do afterwards.                                  *)
(***************************************************************************)
FieldsKept ==
    \A g \in Gens :
        gen[g].status = "ok" =>
            /\ gen'[g].status = "ok"
            /\ gen'[g].epoch = gen[g].epoch
            /\ gen'[g].machine_id = gen[g].machine_id

GenerateFrame ==
    \A c \in Callers :
        call'[c] # call[c] =>
            /\ now' = now /\ codec' = codec
            /\ \A d \in Callers : d # c => call'[d] = call[d]
            /\ gen' = [gen EXCEPT
                         ![GenOf(c)].last_timestamp =
                             gen'[GenOf(c)].last_timestamp,
                         ![GenOf(c)].generated_sequences =
                             gen'[GenOf(c)].generated_sequences]

ParseFrame ==
    codec' # codec => now' = now /\ gen' = gen /\ call' = call

C15_Frame ==
    /\ [](codec.pc = "parsed"
            => codec.parsed = parse_snowflake_id(codec.id, codec.epoch))
    /\ [][FieldsKept /\ GenerateFrame /\ ParseFrame]_vars

\* An ID was parsed with its generator's epoch, giving back the reading,
\* machine id and sequence of the call, and the generator has since gone
\* on to a later reading.
C15_Witness ==
    \E r \in Returned :
        /\ codec.pc = "parsed"
        /\ codec.id = r.id /\ codec.epoch = gen[r.g].epoch
        /\ codec.parsed = <<r.timestamp, gen[r.g].machine_id, r.sequence>>
        /\ gen[r.g].last_timestamp > r.timestamp

(***************************************************************************)
(* C16.  While fewer than 4096 values are in the set, the loop of          *)
(* generate_id ends, provided its draw does not avoid the unused values    *)
(* for ever, and the call returns an ID whose sequence is added to the     *)
(* set.  As claimed, that sequence was not in the set the generator held   *)
(* when the call was made.                                                 *)
(***************************************************************************)
LoopEnds ==
    \A c \in Callers :
        (/\ call[c].pc = "draw"
         /\ gen[GenOf(c)].generated_sequences # 0..MAX_SEQUENCE)
            ~> (call[c].pc = "idle")

\* The sequence that the step adds to the set of c's generator.
Added(c) ==
    gen'[GenOf(c)].generated_sequences \ gen[GenOf(c)].generated_sequences

\* The record of c's call returning with sequence s.
ReturnOf(c, s) ==
    [g |-> GenOf(c), timestamp |-> call[c].timestamp, sequence |-> s,
     retry |-> call[c].retry,
     id |-> PackId(call[c].timestamp, gen[GenOf(c)].epoch,
                   gen[GenOf(c)].machine_id, s)]

LoopLeft(c) == call[c].pc = "draw" /\ call'[c].pc = "idle"

\* The set that c's generator held when the call in progress was made:
\* the sequences of the IDs it returned at the latest reading at which it
\* returned any (C13), the set being emptied in the call at the earliest.
EntrySet(c) ==
    LET mine == {q \in Returned : q.g = GenOf(c)}
        readings == {q.timestamp : q \in mine}
    IN  {q.sequence :
            q \in {p \in mine : \A t \in readings : t <= p.timestamp}}

C16_AsClaimed ==
    /\ LoopEnds
    /\ [][\A c \in Callers :
            LoopLeft(c) =>
                /\ Cardinality(Added(c)) = 1
                /\ \A s \in Added(c) : s \notin EntrySet(c)]_vars

(***************************************************************************)
(* C16, amended.  The same, where the set the returned sequence was not in *)
(* is the set as the loop found it, that is, after the call has emptied it *)
(* if the reading had changed: the values used for the call's reading.     *)
(***************************************************************************)
C16_LoopTerminates ==
    /\ LoopEnds
    /\ [][\A c \in Callers :
            LoopLeft(c) =>
                /\ Cardinality(Added(c)) = 1
                /\ \A s \in Added(c) :
                      /\ s \notin gen[GenOf(c)].generated_sequences
                      /\ s \in gen'[GenOf(c)].generated_sequences
                      /\ CopiesIn(ReturnOf(c, s), returned')
                            = CopiesIn(ReturnOf(c, s), returned) + 1]_vars

\* The call that found the one value left of the 4096 has returned.
C16_Witness ==
    \E r \in Returned :
        /\ r.sequence = MAX_SEQUENCE /\ r.timestamp = 0
        /\ gen[r.g].last_timestamp = 0
        /\ gen[r.g].generated_sequences = 0..MAX_SEQUENCE

(***************************************************************************)
(* C17.  Restart gap.  A generator constructed again with the same epoch   *)
(* and machine id, and called at a reading at which the old object had     *)
(* returned an ID, can return that ID again; one generator returns an ID a *)
(* second time only if it has been restarted in between.                   *)
(***************************************************************************)
ReturnedTwice(r) ==
    \/ returned[r] > 1
    \/ \E q \in Returned : q # r /\ q.g = r.g /\ q.id = r.id

C17_DuplicateOnlyAcrossRestart ==
    \A r \in Returned : ReturnedTwice(r) => gen[r.g].restarted

\* The duplicate across a restart: one ID, returned by two calls on the
\* same generator at the same reading with the same draw.
C17_Witness ==
    \E r \in Returned :
        /\ gen[r.g].restarted
        /\ \/ returned[r] > 1
           \/ \E q \in Returned :
                 /\ q # r /\ q.g = r.g /\ q.id = r.id
                 /\ q.timestamp = r.timestamp /\ q.sequence = r.sequence

(***************************************************************************)
(* C18.  IDs of one generator are ordered by their readings: with the      *)
(* machine id in 0..1023 and readings not below the epoch, an ID returned  *)
(* at a reading is less than every ID returned at a later reading,         *)
(* whatever the sequence values drawn.                                     *)
(***************************************************************************)
C18_TimeOrdered ==
    \A r, q \in Returned :
        (/\ r.g = q.g
         /\ gen[r.g].machine_id \in 0..1023
         /\ gen[r.g].epoch <= r.timestamp
         /\ r.timestamp < q.timestamp)
            => r.id < q.id

\* The earlier ID carries the greatest machine id and sequence, the later
\* one the least sequence.
C18_Witness ==
    \E r, q \in Returned :
        /\ r.g = q.g
        /\ gen[r.g].machine_id = 1023
        /\ gen[r.g].epoch <= r.timestamp
        /\ r.timestamp < q.timestamp
        /\ r.sequence = 4095 /\ q.sequence = 0
        /\ r.id < q.id
====
